---- MODULE Spec2Model ----
(***************************************************************************)
(* Model of internal/gw/publish.go of exodus-rsync: the publish object of  *)
(* the exodus-gw client (NewPublish, GetPublish, ID, AddItems, Commit).    *)
(* Every doJSONRequest is one step whose response is an input drawn from   *)
(* what the gateway or the transport can answer.                           *)
(***************************************************************************)
EXTENDS Integers, Sequences, FiniteSets, TLC

\* ------------------------------------------------------------------ bounds
MaxItems == 4
MaxBatchSize == 3
MaxPolls == 3

\* ------------------------------------------------------------ value spaces
ItemValues == {"i1", "i2"}
GwEnvs == {"prod", "stage"}
PublishIDs == {"pa", "pb"}
TaskIDs == {"t1", "t2"}
TransportErrors == {"errTransportA", "errTransportB"}

NoError == "nil"
\* What a doJSONRequest call returns: nil or a transport error.
Outcomes == {NoError} \cup TransportErrors
ErrMissingSelf == "publish object is missing 'self' link"
ErrNotEligible == "publish not eligible for commit"
ErrTaskFailed == "publish task failed"
ErrCancelled == "context canceled"
NilDeref == "panic: nil pointer dereference"

RECURSIVE SeqsUpTo(_, _)
SeqsUpTo(S, n) ==
    IF n = 0 THEN {<<>>}
    ELSE LET prev == SeqsUpTo(S, n - 1)
         IN prev \cup {Append(s, x) : s \in {t \in prev : Len(t) = n - 1}, x \in S}

ItemLists == SeqsUpTo(ItemValues, MaxItems)

\* ----------------------------------------------------------------- state
VARIABLES
    cfg,          \* c.cfg and c.dryRun: [dryRun, env, batchSize]
    p,            \* the Publish value the caller holds
    origin,       \* which factory call produced p
    pc,           \* position of the caller: idle, or inside AddItems / Await
    input,        \* the items argument AddItems was called with
    items,        \* AddItems: the remaining items
    batch,        \* AddItems: the current batch
    batchSize,    \* AddItems: the local batchSize
    count,        \* AddItems: the batch counter
    totalBatches, \* AddItems: the total logged with every batch
    progress,     \* the "Preparing the next batch" log events of this call
    task,         \* Commit: the task decoded from the commit response
    cancelled,    \* ctx.Done() is closed
    calls,        \* the doJSONRequest calls of the current operation
    ret           \* what the last finished operation returned

vars == <<cfg, p, origin, pc, input, items, batch, batchSize, count,
          totalBatches, progress, task, cancelled, calls, ret>>

addVars == <<input, items, batch, batchSize, count, totalBatches, progress>>

\* ------------------------------------------------------------- data types
\* publish.raw of a freshly allocated &publish{}
ZeroRaw == [ID |-> "", Env |-> "", State |-> "", Links |-> <<>>]

NoPublish == [kind |-> "nil", client |-> FALSE, raw |-> ZeroRaw]
dryRunPublish == [kind |-> "dryRunPublish", client |-> FALSE, raw |-> ZeroRaw]
publish(client, raw) == [kind |-> "publish", client |-> client, raw |-> raw]

NoTask == [client |-> FALSE, raw |-> [ID |-> "", State |-> ""]]

\* URLs are kept as their path segments: "/a/b" is <<"a", "b">>.
PublishURL(env) == <<env, "publish">>
SelfURL(env, id) == Append(PublishURL(env), id)
CommitURL(env, id) == Append(SelfURL(env, id), "commit")
TaskURL(id) == <<"task", id>>

IdempotencyHeaders == {"X-Idempotency-Key"}

\* headers := map[string][]string{"X-Idempotency-Key": {}}: the n-th map
\* allocated by the running operation, with its keys.
NewHeaders(n) == [alloc |-> n, names |-> IdempotencyHeaders]

\* The nil headers argument of a read.
NoHeaders == [alloc |-> 0, names |-> {}]

\* One doJSONRequest call: what was sent, the error it returned (resp) and
\* what the response decoded to (reply): the publish for a creation, the task
\* id for a commit, the task state for a poll.
Request(method, url, body, headers, resp, reply) ==
    [method |-> method, url |-> url, body |-> body, headers |-> headers,
     resp |-> resp, reply |-> reply]

Return(op, err, val) == [op |-> op, err |-> err, val |-> val]

\* Link maps a creation response can carry: any subset of the two links.
LinkMaps(env, id) ==
    LET full == [k \in {"self", "commit"} |->
                    IF k = "self" THEN SelfURL(env, id) ELSE CommitURL(env, id)]
    IN {[k \in S |-> full[k]] : S \in SUBSET {"self", "commit"}}

CreateResponses ==
    UNION {{[ID |-> id, Env |-> env, State |-> "PENDING", Links |-> l] :
                l \in LinkMaps(env, id)} : id \in PublishIDs, env \in GwEnvs}

HasLink(pub, k) == k \in DOMAIN pub.raw.Links

\* url, ok := p.raw.Links[k]: a missing key reads as the zero value.
Lookup(pub, k) == IF HasLink(pub, k) THEN pub.raw.Links[k] ELSE <<>>

\* ------------------------------------------------------------------- Init
Init ==
    /\ cfg \in [dryRun : BOOLEAN, env : GwEnvs, batchSize : 0..MaxBatchSize]
    /\ p = NoPublish
    /\ origin = "none"
    /\ pc = "idle"
    /\ input = <<>>
    /\ items = <<>>
    /\ batch = <<>>
    /\ batchSize = 0
    /\ count = 0
    /\ totalBatches = [kind |-> "num", val |-> 0]
    /\ progress = <<>>
    /\ task = NoTask
    /\ cancelled = FALSE
    /\ calls = <<>>
    /\ ret = Return("none", NoError, "")

ResetLocals ==
    /\ items' = <<>>
    /\ batch' = <<>>
    /\ batchSize' = 0
    /\ count' = 0
    /\ totalBatches' = [kind |-> "num", val |-> 0]
    /\ progress' = <<>>

ResetAdd ==
    /\ input' = <<>>
    /\ ResetLocals

\* ------------------------------------------------------------- NewPublish
\* NewPublish without the dry-run branch.
NewPublishIgnoresDryRun(err, body) ==
    /\ pc = "idle"
    /\ IF FALSE
       THEN /\ p' = dryRunPublish
            /\ origin' = "dryRun"
            /\ calls' = <<>>
            /\ ret' = Return("NewPublish", NoError, "")
       ELSE LET url == PublishURL(cfg.env)
            IN /\ calls' = <<Request("POST", url, <<>>, NewHeaders(1), err,
                                     IF err = NoError THEN body ELSE ZeroRaw)>>
               /\ IF err = NoError
                  THEN /\ p' = publish(TRUE, body)
                       /\ origin' = "new"
                       /\ ret' = Return("NewPublish", NoError, "")
                  ELSE /\ p' = publish(FALSE, ZeroRaw)
                       /\ origin' = "newFailed"
                       /\ ret' = Return("NewPublish", err, "")
    /\ ResetAdd
    /\ task' = NoTask
    /\ cancelled' = FALSE
    /\ UNCHANGED <<cfg, pc>>

\* NewPublish taking the environment from the configuration, not from the
\* response.
NewPublishEnvFromConfig(err, body) ==
    /\ pc = "idle"
    /\ IF cfg.dryRun
       THEN /\ p' = dryRunPublish
            /\ origin' = "dryRun"
            /\ calls' = <<>>
            /\ ret' = Return("NewPublish", NoError, "")
       ELSE LET url == PublishURL(cfg.env)
            IN /\ calls' = <<Request("POST", url, <<>>, NewHeaders(1), err,
                                     IF err = NoError THEN body ELSE ZeroRaw)>>
               /\ IF err = NoError
                  THEN /\ p' = publish(TRUE, [body EXCEPT !.Env = cfg.env])
                       /\ origin' = "new"
                       /\ ret' = Return("NewPublish", NoError, "")
                  ELSE /\ p' = publish(FALSE, ZeroRaw)
                       /\ origin' = "newFailed"
                       /\ ret' = Return("NewPublish", err, "")
    /\ ResetAdd
    /\ task' = NoTask
    /\ cancelled' = FALSE
    /\ UNCHANGED <<cfg, pc>>

\* NewPublish whose failed request still decoded a body into out.raw.
NewPublishKeepsBody(err, body) ==
    /\ pc = "idle"
    /\ IF cfg.dryRun
       THEN /\ p' = dryRunPublish
            /\ origin' = "dryRun"
            /\ calls' = <<>>
            /\ ret' = Return("NewPublish", NoError, "")
       ELSE LET url == PublishURL(cfg.env)
            IN /\ calls' = <<Request("POST", url, <<>>, NewHeaders(1), err,
                                     IF err = NoError THEN body ELSE ZeroRaw)>>
               /\ IF err = NoError
                  THEN /\ p' = publish(TRUE, body)
                       /\ origin' = "new"
                       /\ ret' = Return("NewPublish", NoError, "")
                  ELSE /\ p' = publish(FALSE, body)
                       /\ origin' = "newFailed"
                       /\ ret' = Return("NewPublish", err, "")
    /\ ResetAdd
    /\ task' = NoTask
    /\ cancelled' = FALSE
    /\ UNCHANGED <<cfg, pc>>

\* err is the outcome of the creation POST; body is what it decodes into
\* out.raw when err is nil.
NewPublish(err, body) ==
    /\ pc = "idle"
    /\ IF cfg.dryRun
       THEN /\ p' = dryRunPublish
            /\ origin' = "dryRun"
            /\ calls' = <<>>
            /\ ret' = Return("NewPublish", NoError, "")
       ELSE LET url == PublishURL(cfg.env)
            IN /\ calls' = <<Request("POST", url, <<>>, NewHeaders(1), err,
                                     IF err = NoError THEN body ELSE ZeroRaw)>>
               /\ IF err = NoError
                  THEN /\ p' = publish(TRUE, body)
                       /\ origin' = "new"
                       /\ ret' = Return("NewPublish", NoError, "")
                  ELSE /\ p' = publish(FALSE, ZeroRaw)
                       /\ origin' = "newFailed"
                       /\ ret' = Return("NewPublish", err, "")
    /\ ResetAdd
    /\ task' = NoTask
    /\ cancelled' = FALSE
    /\ UNCHANGED <<cfg, pc>>

\* ------------------------------------------------------------- GetPublish
\* GetPublish returning out, not nil, when the check fails.
GetPublishKeepsOut(id, err) ==
    /\ pc = "idle"
    /\ IF cfg.dryRun
       THEN /\ p' = dryRunPublish
            /\ origin' = "dryRun"
            /\ calls' = <<>>
            /\ ret' = Return("GetPublish", NoError, "")
       ELSE LET url == SelfURL(cfg.env, id)
                out == publish(TRUE,
                          [ID |-> id, Env |-> cfg.env, State |-> "",
                           Links |-> [k \in {"self", "commit"} |->
                                        IF k = "self" THEN url
                                        ELSE Append(url, "commit")]])
            IN /\ calls' = <<Request("GET", url, <<>>, NoHeaders, err, "")>>
               /\ IF err = NoError
                  THEN /\ p' = out
                       /\ origin' = "resumed"
                       /\ ret' = Return("GetPublish", NoError, "")
                  ELSE /\ p' = out
                       /\ origin' = "resumed"
                       /\ ret' = Return("GetPublish", err, "")
    /\ ResetAdd
    /\ task' = NoTask
    /\ cancelled' = FALSE
    /\ UNCHANGED <<cfg, pc>>

\* GetPublish making up a 'commit' link without the /commit suffix.
GetPublishCommitIsSelf(id, err) ==
    /\ pc = "idle"
    /\ IF cfg.dryRun
       THEN /\ p' = dryRunPublish
            /\ origin' = "dryRun"
            /\ calls' = <<>>
            /\ ret' = Return("GetPublish", NoError, "")
       ELSE LET url == SelfURL(cfg.env, id)
                out == publish(TRUE,
                          [ID |-> id, Env |-> cfg.env, State |-> "",
                           Links |-> [k \in {"self", "commit"} |->
                                        IF k = "self" THEN url
                                        ELSE url]])
            IN /\ calls' = <<Request("GET", url, <<>>, NoHeaders, err, "")>>
               /\ IF err = NoError
                  THEN /\ p' = out
                       /\ origin' = "resumed"
                       /\ ret' = Return("GetPublish", NoError, "")
                  ELSE /\ p' = NoPublish
                       /\ origin' = "none"
                       /\ ret' = Return("GetPublish", err, "")
    /\ ResetAdd
    /\ task' = NoTask
    /\ cancelled' = FALSE
    /\ UNCHANGED <<cfg, pc>>

GetPublish(id, err) ==
    /\ pc = "idle"
    /\ IF cfg.dryRun
       THEN /\ p' = dryRunPublish
            /\ origin' = "dryRun"
            /\ calls' = <<>>
            /\ ret' = Return("GetPublish", NoError, "")
       ELSE LET url == SelfURL(cfg.env, id)
                out == publish(TRUE,
                          [ID |-> id, Env |-> cfg.env, State |-> "",
                           Links |-> [k \in {"self", "commit"} |->
                                        IF k = "self" THEN url
                                        ELSE Append(url, "commit")]])
            IN /\ calls' = <<Request("GET", url, <<>>, NoHeaders, err, "")>>
               /\ IF err = NoError
                  THEN /\ p' = out
                       /\ origin' = "resumed"
                       /\ ret' = Return("GetPublish", NoError, "")
                  ELSE /\ p' = NoPublish
                       /\ origin' = "none"
                       /\ ret' = Return("GetPublish", err, "")
    /\ ResetAdd
    /\ task' = NoTask
    /\ cancelled' = FALSE
    /\ UNCHANGED <<cfg, pc>>

\* --------------------------------------------------------------------- ID
ID ==
    /\ pc = "idle"
    /\ p.kind = "publish"
    /\ ret' = Return("ID", NoError, p.raw.ID)
    /\ calls' = <<>>
    /\ ResetAdd
    /\ task' = NoTask
    /\ cancelled' = FALSE
    /\ UNCHANGED <<cfg, p, origin, pc>>

\* --------------------------------------------------------------- AddItems
\* The total computed with integer division, which rounds down.
CeilRoundsDown(n, b) ==
    IF b = 0
    THEN (IF n = 0 THEN [kind |-> "NaN", val |-> 0]
                   ELSE [kind |-> "+Inf", val |-> 0])
    ELSE [kind |-> "num", val |-> n \div b]

\* math.Ceil(float64(n) / float64(b)): IEEE division, so a zero divisor
\* gives NaN (0/0) or +Inf (n/0) and never faults.
Ceil(n, b) ==
    IF b = 0
    THEN (IF n = 0 THEN [kind |-> "NaN", val |-> 0]
                   ELSE [kind |-> "+Inf", val |-> 0])
    ELSE [kind |-> "num", val |-> (n + b - 1) \div b]

\* nextBatch with the remaining items sliced one element too far.
nextBatchOffByOne(its, bs) ==
    LET b == IF bs > Len(its) THEN Len(its) ELSE bs
    IN [batchSize |-> b,
        batch |-> SubSeq(its, 1, b),
        items |-> SubSeq(its, b + 2, Len(its))]

\* nextBatch with its two slicing statements in the wrong order: the batch
\* is cut from what remains after the cut.
nextBatchSwapped(its, bs) ==
    LET b == IF bs > Len(its) THEN Len(its) ELSE bs
        rest == SubSeq(its, b + 1, Len(its))
    IN [batchSize |-> b,
        batch |-> SubSeq(rest, 1, IF b > Len(rest) THEN Len(rest) ELSE b),
        items |-> rest]

\* nextBatch that leaves the remaining items as they were.
nextBatchNoShrink(its, bs) ==
    LET b == IF bs > Len(its) THEN Len(its) ELSE bs
    IN [batchSize |-> b,
        batch |-> SubSeq(its, 1, b),
        items |-> its]

\* The nextBatch closure: clamps batchSize, slices the batch off the front.
nextBatch(its, bs) ==
    LET b == IF bs > Len(its) THEN Len(its) ELSE bs
    IN [batchSize |-> b,
        batch |-> SubSeq(its, 1, b),
        items |-> SubSeq(its, b + 1, Len(its))]

\* Entry of AddItems up to the first evaluation of the loop condition.
\* AddItems without the check of the 'self' link.
AddItemsNoLinkCheck(its) ==
    /\ pc = "idle"
    /\ p.kind = "publish"
    /\ calls' = <<>>
    /\ task' = NoTask
    /\ cancelled' = FALSE
    /\ IF FALSE
       THEN /\ ret' = Return("AddItems", ErrMissingSelf, "")
            /\ ResetLocals
            /\ input' = its
            /\ pc' = "idle"
       ELSE IF ~p.client
       THEN /\ ret' = Return("AddItems", NilDeref, "")
            /\ ResetLocals
            /\ input' = its
            /\ pc' = "idle"
       ELSE LET nb == nextBatch(its, cfg.batchSize)
            IN /\ input' = its
               /\ count' = 0
               /\ progress' = <<>>
               /\ totalBatches' = Ceil(Len(its), cfg.batchSize)
               /\ batchSize' = nb.batchSize
               /\ batch' = nb.batch
               /\ items' = nb.items
               /\ IF Len(nb.batch) > 0
                  THEN /\ pc' = "AddItems"
                       /\ ret' = Return("AddItems", "running", "")
                  ELSE /\ pc' = "idle"
                       /\ ret' = Return("AddItems", NoError, "")
    /\ UNCHANGED <<cfg, p, origin>>

\* AddItems with the loop body run before the loop condition is tested.
AddItemsBodyFirst(its) ==
    /\ pc = "idle"
    /\ p.kind = "publish"
    /\ calls' = <<>>
    /\ task' = NoTask
    /\ cancelled' = FALSE
    /\ IF ~HasLink(p, "self")
       THEN /\ ret' = Return("AddItems", ErrMissingSelf, "")
            /\ ResetLocals
            /\ input' = its
            /\ pc' = "idle"
       ELSE IF ~p.client
       THEN /\ ret' = Return("AddItems", NilDeref, "")
            /\ ResetLocals
            /\ input' = its
            /\ pc' = "idle"
       ELSE LET nb == nextBatch(its, cfg.batchSize)
            IN /\ input' = its
               /\ count' = 0
               /\ progress' = <<>>
               /\ totalBatches' = Ceil(Len(its), cfg.batchSize)
               /\ batchSize' = nb.batchSize
               /\ batch' = nb.batch
               /\ items' = nb.items
               /\ IF TRUE
                  THEN /\ pc' = "AddItems"
                       /\ ret' = Return("AddItems", "running", "")
                  ELSE /\ pc' = "idle"
                       /\ ret' = Return("AddItems", NoError, "")
    /\ UNCHANGED <<cfg, p, origin>>

AddItems(its) ==
    /\ pc = "idle"
    /\ p.kind = "publish"
    /\ calls' = <<>>
    /\ task' = NoTask
    /\ cancelled' = FALSE
    /\ IF ~HasLink(p, "self")
       THEN /\ ret' = Return("AddItems", ErrMissingSelf, "")
            /\ ResetLocals
            /\ input' = its
            /\ pc' = "idle"
       ELSE IF ~p.client
       THEN /\ ret' = Return("AddItems", NilDeref, "")
            /\ ResetLocals
            /\ input' = its
            /\ pc' = "idle"
       ELSE LET nb == nextBatch(its, cfg.batchSize)
            IN /\ input' = its
               /\ count' = 0
               /\ progress' = <<>>
               /\ totalBatches' = Ceil(Len(its), cfg.batchSize)
               /\ batchSize' = nb.batchSize
               /\ batch' = nb.batch
               /\ items' = nb.items
               /\ IF Len(nb.batch) > 0
                  THEN /\ pc' = "AddItems"
                       /\ ret' = Return("AddItems", "running", "")
                  ELSE /\ pc' = "idle"
                       /\ ret' = Return("AddItems", NoError, "")
    /\ UNCHANGED <<cfg, p, origin>>

\* The loop body going on to the next batch after a failed PUT.
AddItemsBatchKeepsGoing(err) ==
    /\ pc = "AddItems"
    /\ LET nb == nextBatch(items, batchSize)
       IN /\ count' = count + 1
          /\ progress' = Append(progress, [currentBatch |-> count + 1,
                                           totalBatches |-> totalBatches])
          /\ calls' = Append(calls,
                        Request("PUT", Lookup(p, "self"), batch,
                                NewHeaders(Len(calls) + 1), err, ""))
          /\ IF err # NoError /\ Len(nb.batch) = 0
             THEN /\ ret' = Return("AddItems", err, "")
                  /\ pc' = "idle"
                  /\ UNCHANGED <<batchSize, batch, items>>
             ELSE /\ batchSize' = nb.batchSize
                  /\ batch' = nb.batch
                  /\ items' = nb.items
                  /\ IF Len(nb.batch) > 0
                     THEN UNCHANGED <<pc, ret>>
                     ELSE /\ pc' = "idle"
                          /\ ret' = Return("AddItems", NoError, "")
    /\ UNCHANGED <<cfg, p, origin, input, totalBatches, task, cancelled>>

\* The loop body sending a headers map made once, before the loop.
AddItemsBatchSharedHeaders(err) ==
    /\ pc = "AddItems"
    /\ LET nb == nextBatch(items, batchSize)
       IN /\ count' = count + 1
          /\ progress' = Append(progress, [currentBatch |-> count + 1,
                                           totalBatches |-> totalBatches])
          /\ calls' = Append(calls,
                        Request("PUT", Lookup(p, "self"), batch,
                                NewHeaders(1), err, ""))
          /\ IF err # NoError
             THEN /\ ret' = Return("AddItems", err, "")
                  /\ pc' = "idle"
                  /\ UNCHANGED <<batchSize, batch, items>>
             ELSE /\ batchSize' = nb.batchSize
                  /\ batch' = nb.batch
                  /\ items' = nb.items
                  /\ IF Len(nb.batch) > 0
                     THEN UNCHANGED <<pc, ret>>
                     ELSE /\ pc' = "idle"
                          /\ ret' = Return("AddItems", NoError, "")
    /\ UNCHANGED <<cfg, p, origin, input, totalBatches, task, cancelled>>

\* One iteration of the loop body: log, PUT the batch, then the loop's post
\* statement (nextBatch) and condition.  err is the outcome of the PUT.
AddItemsBatch(err) ==
    /\ pc = "AddItems"
    /\ LET nb == nextBatch(items, batchSize)
       IN /\ count' = count + 1
          /\ progress' = Append(progress, [currentBatch |-> count + 1,
                                           totalBatches |-> totalBatches])
          /\ calls' = Append(calls,
                        Request("PUT", Lookup(p, "self"), batch,
                                NewHeaders(Len(calls) + 1), err, ""))
          /\ IF err # NoError
             THEN /\ ret' = Return("AddItems", err, "")
                  /\ pc' = "idle"
                  /\ UNCHANGED <<batchSize, batch, items>>
             ELSE /\ batchSize' = nb.batchSize
                  /\ batch' = nb.batch
                  /\ items' = nb.items
                  /\ IF Len(nb.batch) > 0
                     THEN UNCHANGED <<pc, ret>>
                     ELSE /\ pc' = "idle"
                          /\ ret' = Return("AddItems", NoError, "")
    /\ UNCHANGED <<cfg, p, origin, input, totalBatches, task, cancelled>>

\* ----------------------------------------------------------------- Commit
\* The task a commit response decodes to.
CommitResponses == {[ID |-> id, State |-> "pending"] : id \in TaskIDs}

\* Commit returning right after the commit POST, without task.Await.
CommitNoAwait(ctxDone, err, body) ==
    /\ pc = "idle"
    /\ p.kind = "publish"
    /\ ResetAdd
    /\ cancelled' = ctxDone
    /\ IF ~HasLink(p, "commit")
       THEN /\ ret' = Return("Commit", ErrNotEligible, "")
            /\ calls' = <<>>
            /\ task' = NoTask
            /\ pc' = "idle"
       ELSE IF ~p.client
       THEN /\ ret' = Return("Commit", NilDeref, "")
            /\ calls' = <<>>
            /\ task' = NoTask
            /\ pc' = "idle"
       ELSE    /\ calls' = <<Request("POST", Lookup(p, "commit"), <<>>,
                                     NewHeaders(1), err,
                                     IF err = NoError THEN body.ID ELSE "")>>
               /\ IF err = NoError
                  THEN /\ task' = [client |-> TRUE, raw |-> body]
                       /\ pc' = "idle"
                       /\ ret' = Return("Commit", NoError, "")
                  ELSE /\ task' = NoTask
                       /\ pc' = "idle"
                       /\ ret' = Return("Commit", err, "")
    /\ UNCHANGED <<cfg, p, origin>>


\* Commit without the check of the 'commit' link.
CommitNoLinkCheck(ctxDone, err, body) ==
    /\ pc = "idle"
    /\ p.kind = "publish"
    /\ ResetAdd
    /\ cancelled' = ctxDone
    /\ IF FALSE
       THEN /\ ret' = Return("Commit", ErrNotEligible, "")
            /\ calls' = <<>>
            /\ task' = NoTask
            /\ pc' = "idle"
       ELSE IF ~p.client
       THEN /\ ret' = Return("Commit", NilDeref, "")
            /\ calls' = <<>>
            /\ task' = NoTask
            /\ pc' = "idle"
       ELSE    /\ calls' = <<Request("POST", Lookup(p, "commit"), <<>>,
                                     NewHeaders(1), err,
                                     IF err = NoError THEN body.ID ELSE "")>>
               /\ IF err = NoError
                  THEN /\ task' = [client |-> TRUE, raw |-> body]
                       /\ pc' = "Await"
                       /\ ret' = Return("Commit", "running", "")
                  ELSE /\ task' = NoTask
                       /\ pc' = "idle"
                       /\ ret' = Return("Commit", err, "")
    /\ UNCHANGED <<cfg, p, origin>>


\* Commit going on to task.Await although the commit POST failed.
CommitIgnoresPostError(ctxDone, err, body) ==
    /\ pc = "idle"
    /\ p.kind = "publish"
    /\ ResetAdd
    /\ cancelled' = ctxDone
    /\ IF ~HasLink(p, "commit")
       THEN /\ ret' = Return("Commit", ErrNotEligible, "")
            /\ calls' = <<>>
            /\ task' = NoTask
            /\ pc' = "idle"
       ELSE IF ~p.client
       THEN /\ ret' = Return("Commit", NilDeref, "")
            /\ calls' = <<>>
            /\ task' = NoTask
            /\ pc' = "idle"
       ELSE    /\ calls' = <<Request("POST", Lookup(p, "commit"), <<>>,
                                     NewHeaders(1), err,
                                     IF err = NoError THEN body.ID ELSE "")>>
               /\ IF TRUE
                  THEN /\ task' = [client |-> TRUE, raw |-> body]
                       /\ pc' = "Await"
                       /\ ret' = Return("Commit", "running", "")
                  ELSE /\ task' = NoTask
                       /\ pc' = "idle"
                       /\ ret' = Return("Commit", err, "")
    /\ UNCHANGED <<cfg, p, origin>>


\* Commit decoding the commit response into p.raw, not into task.raw.
CommitDecodesIntoPublish(ctxDone, err, body) ==
    /\ pc = "idle"
    /\ p.kind = "publish"
    /\ ResetAdd
    /\ cancelled' = ctxDone
    /\ IF ~HasLink(p, "commit")
       THEN /\ ret' = Return("Commit", ErrNotEligible, "")
            /\ calls' = <<>>
            /\ task' = NoTask
            /\ pc' = "idle"
       ELSE IF ~p.client
       THEN /\ ret' = Return("Commit", NilDeref, "")
            /\ calls' = <<>>
            /\ task' = NoTask
            /\ pc' = "idle"
       ELSE    /\ calls' = <<Request("POST", Lookup(p, "commit"), <<>>,
                                     NewHeaders(1), err,
                                     IF err = NoError THEN body.ID ELSE "")>>
               /\ IF err = NoError
                  THEN /\ task' = [client |-> TRUE, raw |-> body]
                       /\ pc' = "Await"
                       /\ ret' = Return("Commit", "running", "")
                  ELSE /\ task' = NoTask
                       /\ pc' = "idle"
                       /\ ret' = Return("Commit", err, "")
    /\ p' = IF HasLink(p, "commit") /\ p.client /\ err = NoError
            THEN [p EXCEPT !.raw.ID = body.ID]
            ELSE p
    /\ UNCHANGED <<cfg, origin>>

\* Commit up to the call of task.Await.  resp is the outcome of the commit
\* POST; body is what it decodes into task.raw when err is nil.
Commit(ctxDone, err, body) ==
    /\ pc = "idle"
    /\ p.kind = "publish"
    /\ ResetAdd
    /\ cancelled' = ctxDone
    /\ IF ~HasLink(p, "commit")
       THEN /\ ret' = Return("Commit", ErrNotEligible, "")
            /\ calls' = <<>>
            /\ task' = NoTask
            /\ pc' = "idle"
       ELSE IF ~p.client
       THEN /\ ret' = Return("Commit", NilDeref, "")
            /\ calls' = <<>>
            /\ task' = NoTask
            /\ pc' = "idle"
       ELSE    /\ calls' = <<Request("POST", Lookup(p, "commit"), <<>>,
                                     NewHeaders(1), err,
                                     IF err = NoError THEN body.ID ELSE "")>>
               /\ IF err = NoError
                  THEN /\ task' = [client |-> TRUE, raw |-> body]
                       /\ pc' = "Await"
                       /\ ret' = Return("Commit", "running", "")
                  ELSE /\ task' = NoTask
                       /\ pc' = "idle"
                       /\ ret' = Return("Commit", err, "")
    /\ UNCHANGED <<cfg, p, origin>>


\* ------------------------------------------------------------- task.Await
TaskStates == {"pending", "succeeded", "failed"}

Polls == Len(SelectSeq(calls, LAMBDA c : c.method = "GET"))

\* The poll reporting a failed task as success.
AwaitPollFailedIsSuccess(err, state) ==
    /\ pc = "Await"
    /\ IF cancelled
       THEN /\ ret' = Return("Commit", ErrCancelled, "")
            /\ pc' = "idle"
            /\ UNCHANGED <<calls, task>>
       ELSE    /\ (err = NoError /\ state = "pending") => Polls < MaxPolls
               /\ calls' = Append(calls,
                             Request("GET", TaskURL(task.raw.ID), <<>>, NoHeaders, err,
                                     IF err = NoError THEN state ELSE ""))
               /\ IF err # NoError
                  THEN /\ ret' = Return("Commit", err, "")
                       /\ pc' = "idle"
                       /\ UNCHANGED task
                  ELSE /\ task' = [task EXCEPT !.raw.State = state]
                       /\ IF state = "succeeded"
                          THEN /\ ret' = Return("Commit", NoError, "")
                               /\ pc' = "idle"
                          ELSE IF state = "failed"
                          THEN /\ ret' = Return("Commit", NoError, "")
                               /\ pc' = "idle"
                          ELSE /\ pc' = "AwaitWait"
                               /\ UNCHANGED ret
    /\ UNCHANGED <<cfg, p, origin, cancelled>>
    /\ UNCHANGED addVars

\* The poll issued without looking at the context first.
AwaitPollNoCtxCheck(err, state) ==
    /\ pc = "Await"
    /\ IF FALSE
       THEN /\ ret' = Return("Commit", ErrCancelled, "")
            /\ pc' = "idle"
            /\ UNCHANGED <<calls, task>>
       ELSE    /\ (err = NoError /\ state = "pending") => Polls < MaxPolls
               /\ calls' = Append(calls,
                             Request("GET", TaskURL(task.raw.ID), <<>>, NoHeaders, err,
                                     IF err = NoError THEN state ELSE ""))
               /\ IF err # NoError
                  THEN /\ ret' = Return("Commit", err, "")
                       /\ pc' = "idle"
                       /\ UNCHANGED task
                  ELSE /\ task' = [task EXCEPT !.raw.State = state]
                       /\ IF state = "succeeded"
                          THEN /\ ret' = Return("Commit", NoError, "")
                               /\ pc' = "idle"
                          ELSE IF state = "failed"
                          THEN /\ ret' = Return("Commit", ErrTaskFailed, "")
                               /\ pc' = "idle"
                          ELSE /\ pc' = "AwaitWait"
                               /\ UNCHANGED ret
    /\ UNCHANGED <<cfg, p, origin, cancelled>>
    /\ UNCHANGED addVars

\* Before each poll the context is checked; then the task is read and its
\* new representation replaces the old one.
AwaitPoll(err, state) ==
    /\ pc = "Await"
    /\ IF cancelled
       THEN /\ ret' = Return("Commit", ErrCancelled, "")
            /\ pc' = "idle"
            /\ UNCHANGED <<calls, task>>
       ELSE    /\ (err = NoError /\ state = "pending") => Polls < MaxPolls
               /\ calls' = Append(calls,
                             Request("GET", TaskURL(task.raw.ID), <<>>, NoHeaders, err,
                                     IF err = NoError THEN state ELSE ""))
               /\ IF err # NoError
                  THEN /\ ret' = Return("Commit", err, "")
                       /\ pc' = "idle"
                       /\ UNCHANGED task
                  ELSE /\ task' = [task EXCEPT !.raw.State = state]
                       /\ IF state = "succeeded"
                          THEN /\ ret' = Return("Commit", NoError, "")
                               /\ pc' = "idle"
                          ELSE IF state = "failed"
                          THEN /\ ret' = Return("Commit", ErrTaskFailed, "")
                               /\ pc' = "idle"
                          ELSE /\ pc' = "AwaitWait"
                               /\ UNCHANGED ret
    /\ UNCHANGED <<cfg, p, origin, cancelled>>
    /\ UNCHANGED addVars

\* The wait between two polls: it ends when the interval has elapsed or
\* when the context is done.
AwaitWait ==
    /\ pc = "AwaitWait"
    /\ IF cancelled
       THEN /\ ret' = Return("Commit", ErrCancelled, "")
            /\ pc' = "idle"
       ELSE /\ pc' = "Await"
            /\ UNCHANGED ret
    /\ UNCHANGED <<cfg, p, origin, cancelled, calls, task>>
    /\ UNCHANGED addVars

\* The caller's context is cancelled or its deadline passes.
Cancel ==
    /\ pc \in {"Await", "AwaitWait"}
    /\ ~cancelled
    /\ cancelled' = TRUE
    /\ UNCHANGED <<cfg, p, origin, pc, calls, task, ret>>
    /\ UNCHANGED addVars

\* ------------------------------------------------------- dryRunPublish
DryRunAddItems(its) ==
    /\ pc = "idle"
    /\ p.kind = "dryRunPublish"
    /\ ret' = Return("AddItems", NoError, "")
    /\ calls' = <<>>
    /\ ResetAdd
    /\ task' = NoTask
    /\ cancelled' = FALSE
    /\ UNCHANGED <<cfg, p, origin, pc>>

DryRunCommit ==
    /\ pc = "idle"
    /\ p.kind = "dryRunPublish"
    /\ ret' = Return("Commit", NoError, "")
    /\ calls' = <<>>
    /\ ResetAdd
    /\ task' = NoTask
    /\ cancelled' = FALSE
    /\ UNCHANGED <<cfg, p, origin, pc>>

\* ------------------------------------------------------------------- Next
Next ==
    \/ \E err \in Outcomes, body \in CreateResponses : NewPublish(err, body)
    \/ \E id \in PublishIDs, err \in Outcomes : GetPublish(id, err)
    \/ ID
    \/ \E its \in ItemLists : AddItems(its)
    \/ \E err \in Outcomes : AddItemsBatch(err)
    \/ \E ctxDone \in BOOLEAN, err \in Outcomes, body \in CommitResponses :
          Commit(ctxDone, err, body)
    \/ \E err \in Outcomes, state \in TaskStates : AwaitPoll(err, state)
    \/ AwaitWait
    \/ Cancel
    \/ \E its \in ItemLists : DryRunAddItems(its)
    \/ DryRunCommit

Spec == Init /\ [][Next]_vars

\* The scheduling of one call: a started AddItems or Commit keeps running
\* (every transport call returns, the poll interval elapses).
FairSpec ==
    /\ Spec
    /\ WF_vars(\E err \in Outcomes : AddItemsBatch(err))
    /\ WF_vars(\E err \in Outcomes, state \in TaskStates : AwaitPoll(err, state))
    /\ WF_vars(AwaitWait)

\* ================================================================ claims
RECURSIVE Flatten(_)
Flatten(cs) == IF cs = <<>> THEN <<>> ELSE Head(cs).body \o Flatten(Tail(cs))

Min(a, b) == IF a < b THEN a ELSE b

\* The i-th (1-indexed) slice of size b of the list l.
Chunk(l, b, i) == SubSeq(l, (i - 1) * b + 1, Min(i * b, Len(l)))

Returned(op) == pc = "idle" /\ ret.op = op /\ p.kind = "publish"

Accepted(cs) == SelectSeq(cs, LAMBDA c : c.resp = NoError)

\* C1: with a batch size B > 0, an AddItems call of N items whose submissions
\* are all accepted has issued exactly ceil(N/B) PUT calls, each of at most
\* B items, and the payloads concatenated in call order are the item list.
C1_BatchesReproduceItems ==
    (Returned("AddItems") /\ ret.err = NoError /\ cfg.batchSize > 0) =>
        LET N == Len(input)
            B == cfg.batchSize
            k == Len(calls)
        IN /\ k * B >= N
           /\ k > 0 => (k - 1) * B < N
           /\ \A i \in 1..k : /\ calls[i].method = "PUT"
                              /\ calls[i].resp = NoError
                              /\ Len(calls[i].body) <= B
           /\ Flatten(calls) = input

\* C1 witness: three items with batch size two went out as two PUT calls.
C1_Witness ==
    /\ Returned("AddItems") /\ ret.err = NoError
    /\ cfg.batchSize = 2 /\ Len(input) = 3 /\ Len(calls) = 2
    /\ Len(calls[2].body) = 1

\* C2: whenever AddItems returns success, every item of the input list was
\* sent in an accepted PUT call, for every batch size, zero included.
C2_SuccessMeansAllSent ==
    (Returned("AddItems") /\ ret.err = NoError) =>
        Flatten(Accepted(calls)) = input

\* C3: when the submission of batch k fails, exactly k PUT calls were made
\* (batches 1..k once each, in order, the first k-1 accepted), AddItems
\* returns the error of the k-th call and the items after batch k stay
\* unsubmitted.
C3_FailureAborts ==
    (Returned("AddItems") /\ ret.err \in TransportErrors) =>
        LET k == Len(calls)
            B == cfg.batchSize
        IN /\ k >= 1
           /\ k = count
           /\ calls[k].resp = ret.err
           /\ \A i \in 1..(k - 1) : calls[i].resp = NoError
           /\ \A i \in 1..k : /\ calls[i].method = "PUT"
                              /\ calls[i].body = Chunk(input, B, i)
           /\ items = SubSeq(input, Min(k * B, Len(input)) + 1, Len(input))

\* C3 witness: the second of three batches failed.
C3_Witness ==
    /\ Returned("AddItems") /\ ret.err = "errTransportB"
    /\ Len(calls) = 2 /\ Len(input) = 3 /\ cfg.batchSize = 1
    /\ items # <<>>

\* The task polls of the current Commit call, in order.
Gets == SelectSeq(calls, LAMBDA c : c.method = "GET")

Awaiting == pc \in {"Await", "AwaitWait"}

\* C4: Commit returns nil only when the commit POST succeeded and the last
\* poll then saw the task succeeded; every other finished Commit returns an
\* error, and no Commit returns with the task still pending.
C4_CommitNilOnlyOnSuccess ==
    Returned("Commit") =>
        /\ ret.err # "running"
        /\ ret.err = NoError =>
              /\ Len(calls) >= 2
              /\ calls[1].method = "POST" /\ calls[1].resp = NoError
              /\ calls[Len(calls)].method = "GET"
              /\ calls[Len(calls)].resp = NoError
              /\ calls[Len(calls)].reply = "succeeded"
              /\ task.raw.State = "succeeded"
        /\ ret.err # NoError =>
              \/ calls = <<>>
              \/ calls[Len(calls)].resp # NoError
              \/ calls[Len(calls)].reply = "failed"
              \/ cancelled

\* C4 witness: a Commit that returned nil after a pending and a succeeded poll.
C4_Witness ==
    /\ Returned("Commit") /\ ret.err = NoError
    /\ Len(Gets) = 2 /\ Gets[1].reply = "pending"

\* C5: outside dry-run, GetPublish issues exactly one GET, to the self URL it
\* synthesized; when that GET fails it returns the GET's error and a nil
\* publish, and it returns a publish only when the GET succeeded.
C5_ResumeNeedsCheck ==
    (pc = "idle" /\ ret.op = "GetPublish" /\ ~cfg.dryRun) =>
        /\ Len(calls) = 1
        /\ calls[1].method = "GET"
        /\ Len(calls[1].url) = 3
        /\ SubSeq(calls[1].url, 1, 2) = <<cfg.env, "publish">>
        /\ calls[1].resp # NoError => (ret.err = calls[1].resp /\ p = NoPublish)
        /\ calls[1].resp = NoError =>
              /\ ret.err = NoError
              /\ p.kind = "publish"
              /\ p.raw.Links["self"] = calls[1].url
              /\ p.raw.ID = calls[1].url[3]

\* C5 witness: a resumption whose existence check failed.
C5_Witness ==
    /\ pc = "idle" /\ ret.op = "GetPublish" /\ ret.err = "errTransportA"
    /\ p = NoPublish /\ Len(calls) = 1

\* C6: Commit on a publish without a 'commit' link returns the session-state
\* error at once, with no commit POST and no task poll.
C6_CommitNeedsLink ==
    /\ (Returned("Commit") /\ ~HasLink(p, "commit")) =>
          (ret.err = ErrNotEligible /\ calls = <<>>)
    /\ (Awaiting /\ p.kind = "publish") => HasLink(p, "commit")

\* C6 witness: Commit refused on a created publish that has only 'self'.
C6_Witness ==
    /\ Returned("Commit") /\ ret.err = ErrNotEligible
    /\ origin = "new" /\ HasLink(p, "self") /\ ~HasLink(p, "commit")

\* C7: AddItems on a publish without a 'self' link returns the session-state
\* error with no PUT issued, whatever the item list and the batch size.
C7_AddItemsNeedsLink ==
    /\ (Returned("AddItems") /\ ~HasLink(p, "self")) =>
          (ret.err = ErrMissingSelf /\ calls = <<>>)
    /\ (pc = "AddItems" /\ p.kind = "publish") => HasLink(p, "self")

\* C7 witness: AddItems of two items refused on a created publish that has
\* only 'commit'.
C7_Witness ==
    /\ Returned("AddItems") /\ ret.err = ErrMissingSelf
    /\ origin = "new" /\ HasLink(p, "commit") /\ Len(input) = 2

\* C7 witness: the same refusal for the empty item list.
C7_WitnessEmpty ==
    /\ Returned("AddItems") /\ ret.err = ErrMissingSelf /\ input = <<>>

\* C8: AddItems of the empty list on a publish with a 'self' link returns nil
\* without entering the loop and without any call, for every batch size.
C8_EmptyIsNoOp ==
    /\ (Returned("AddItems") /\ HasLink(p, "self") /\ input = <<>>) =>
          (ret.err = NoError /\ calls = <<>> /\ count = 0)
    /\ (pc = "AddItems" /\ p.kind = "publish") => input # <<>>

\* C8 witness: the empty list accepted with batch size zero.
C8_Witness ==
    /\ Returned("AddItems") /\ HasLink(p, "self") /\ input = <<>>
    /\ ret.err = NoError /\ cfg.batchSize = 0

\* C9: in a Commit, every poll but the last answered pending; a succeeded
\* answer ends the polling with nil and a failed answer ends it with the
\* task-failure error, so k pending answers and a terminal one are k+1 polls;
\* nil is returned only after succeeded, the task failure only after failed.
C9_PollUntilTerminal ==
    (ret.op = "Commit" /\ p.kind = "publish") =>
        LET n == Len(Gets)
        IN /\ \A i \in 1..(n - 1) :
                 Gets[i].resp = NoError /\ Gets[i].reply = "pending"
           /\ (n >= 1 /\ Gets[n].reply = "succeeded") =>
                 (pc = "idle" /\ ret.err = NoError)
           /\ (n >= 1 /\ Gets[n].reply = "failed") =>
                 (pc = "idle" /\ ret.err = ErrTaskFailed)
           /\ (pc = "idle" /\ ret.err = NoError) =>
                 (n >= 1 /\ Gets[n].reply = "succeeded")
           /\ (pc = "idle" /\ ret.err = ErrTaskFailed) =>
                 (n >= 1 /\ Gets[n].reply = "failed")

\* C9 witness: [pending, pending, succeeded] returned nil after three polls.
C9_Witness ==
    /\ Returned("Commit") /\ ret.err = NoError
    /\ Len(Gets) = 3
    /\ Gets[1].reply = "pending" /\ Gets[2].reply = "pending"
    /\ Gets[3].reply = "succeeded"

\* C9 witness: [pending, failed] returned the task failure after two polls.
C9_WitnessFailed ==
    /\ Returned("Commit") /\ ret.err = ErrTaskFailed
    /\ Len(Gets) = 2 /\ Gets[1].reply = "pending" /\ Gets[2].reply = "failed"

\* C10: once the context is done while Await runs, Await's next step returns
\* the cancellation error without another poll (none at all when the context
\* was done before the first poll), and Await does take that step.
C10_CancelStopsAwait ==
    /\ [][(cancelled /\ Awaiting) =>
             (calls' = calls /\ pc' = "idle" /\ ret'.err = ErrCancelled)]_vars
    /\ (cancelled /\ Awaiting) ~> (pc = "idle" /\ ret.err = ErrCancelled)

\* C10 witness: a Commit cancelled during the wait after its first poll.
C10_Witness ==
    /\ Returned("Commit") /\ ret.err = ErrCancelled /\ cancelled
    /\ Len(Gets) = 1 /\ Gets[1].reply = "pending"

\* C10 witness: a Commit whose context was done before the first poll.
C10_WitnessNoPoll ==
    /\ Returned("Commit") /\ ret.err = ErrCancelled /\ cancelled
    /\ Len(Gets) = 0 /\ Len(calls) = 1

\* C11: in dry-run mode NewPublish and GetPublish return the no-op publish
\* with a nil error, nothing is ever requested from the gateway, and AddItems
\* on the no-op publish returns nil.
C11_DryRunIsNoOp ==
    cfg.dryRun =>
        /\ calls = <<>>
        /\ (pc = "idle" /\ ret.op \in {"NewPublish", "GetPublish"}) =>
              (p = dryRunPublish /\ ret.err = NoError)
        /\ ret.op = "AddItems" =>
              (pc = "idle" /\ p = dryRunPublish /\ ret.err = NoError)

\* C11 witness: AddItems returned on a no-op publish obtained in dry-run.
C11_Witness ==
    /\ cfg.dryRun /\ origin = "dryRun" /\ p = dryRunPublish
    /\ pc = "idle" /\ ret.op = "AddItems" /\ ret.err = NoError

\* C12: outside dry-run NewPublish issues exactly one POST, to
\* /{env}/publish; when it succeeds the publish carries the id, environment
\* and links of the response, and when it fails NewPublish returns that
\* error after the one call.
C12_CreateOnce ==
    (pc = "idle" /\ ret.op = "NewPublish" /\ ~cfg.dryRun) =>
        /\ Len(calls) = 1
        /\ calls[1].method = "POST"
        /\ calls[1].url = <<cfg.env, "publish">>
        /\ calls[1].resp = ret.err
        /\ ret.err = NoError =>
              /\ p.kind = "publish"
              /\ p.raw.ID = calls[1].reply.ID
              /\ p.raw.Env = calls[1].reply.Env
              /\ p.raw.Links = calls[1].reply.Links

\* C12 witness: a creation whose response named another environment and
\* carried only the 'self' link.
C12_Witness ==
    /\ pc = "idle" /\ ret.op = "NewPublish" /\ ret.err = NoError
    /\ p.raw.Env # cfg.env /\ DOMAIN p.raw.Links = {"self"}

\* C12 witness: a creation that failed after its one call.
C12_WitnessFailed ==
    /\ pc = "idle" /\ ret.op = "NewPublish" /\ ret.err = "errTransportB"
    /\ Len(calls) = 1

\* C13: a Commit issues its POST once, to the 'commit' link, before any poll;
\* when the POST fails Commit returns that error and nothing is polled; when
\* it succeeds every poll reads the task the response decoded to, and the
\* error of a failed poll is what Commit returns.
C13_PostThenAwait ==
    (ret.op = "Commit" /\ p.kind = "publish") =>
        /\ Awaiting => calls # <<>>
        /\ calls # <<>> =>
              /\ calls[1].method = "POST"
              /\ calls[1].url = Lookup(p, "commit")
              /\ \A i \in 2..Len(calls) :
                    /\ calls[i].method = "GET"
                    /\ calls[i].url = TaskURL(calls[1].reply)
              /\ calls[1].resp # NoError =>
                    (Len(calls) = 1 /\ pc = "idle" /\ ret.err = calls[1].resp)
              /\ (calls[1].resp = NoError /\ pc # "idle") =>
                    (task.client /\ task.raw.ID = calls[1].reply)
              /\ (Len(calls) > 1 /\ calls[Len(calls)].resp # NoError) =>
                    (pc = "idle" /\ ret.err = calls[Len(calls)].resp)

\* C13 witness: a Commit whose POST gave task t2 and whose second poll failed
\* in the transport.
C13_Witness ==
    /\ Returned("Commit") /\ ret.err = "errTransportA"
    /\ Len(calls) = 3 /\ calls[1].reply = "t2" /\ calls[1].resp = NoError

\* C13 witness: a Commit whose POST failed.
C13_WitnessPostFailed ==
    /\ Returned("Commit") /\ ret.err = "errTransportB"
    /\ Len(calls) = 1 /\ calls[1].method = "POST"

\* C14: a publish resumed with id in environment env has that id, the self
\* link /env/publish/id and the commit link /env/publish/id/commit; the
\* existence check is a GET of the self link, every AddItems PUT goes to the
\* self link, Commit's POST goes to the commit link and ID returns id.
C14_ResumedLinks ==
    origin = "resumed" =>
        LET self == <<cfg.env, "publish", p.raw.ID>>
            commit == <<cfg.env, "publish", p.raw.ID, "commit">>
        IN /\ p.kind = "publish"
           /\ DOMAIN p.raw.Links = {"self", "commit"}
           /\ p.raw.Links["self"] = self
           /\ p.raw.Links["commit"] = commit
           /\ ret.op = "GetPublish" =>
                 (Len(calls) = 1 /\ calls[1].method = "GET" /\ calls[1].url = self)
           /\ ret.op = "ID" => ret.val = p.raw.ID
           /\ ret.op = "AddItems" =>
                 \A i \in 1..Len(calls) :
                    calls[i].method = "PUT" /\ calls[i].url = self
           /\ (ret.op = "Commit" /\ calls # <<>>) =>
                 (calls[1].method = "POST" /\ calls[1].url = commit)

\* C14 witness: a Commit POST sent for the resumed publish pb.
C14_Witness ==
    /\ origin = "resumed" /\ p.raw.ID = "pb"
    /\ ret.op = "Commit" /\ calls # <<>>

\* C14 witness: two AddItems PUTs sent for a resumed publish.
C14_WitnessAddItems ==
    /\ origin = "resumed" /\ ret.op = "AddItems" /\ Len(calls) = 2

\* The smallest k with k * b >= n, for b > 0.
CeilDiv(n, b) == CHOOSE k \in 0..n : k * b >= n /\ (k = 0 \/ (k - 1) * b < n)

\* C15: with a batch size B > 0, every PUT of an AddItems call of N items is
\* preceded by exactly one progress signal; the k-th signal carries batch
\* index k and every signal carries the total ceil(N/B).
C15_ProgressSignals ==
    (ret.op = "AddItems" /\ p.kind = "publish" /\ cfg.batchSize > 0) =>
        /\ Len(progress) = Len(calls)
        /\ Len(progress) = count
        /\ \A k \in 1..Len(progress) :
              /\ progress[k].currentBatch = k
              /\ progress[k].totalBatches =
                    [kind |-> "num", val |-> CeilDiv(Len(input), cfg.batchSize)]

\* C15 witness: batch 2 of 2 signalled for three items with batch size two,
\* the batch size clamped to one by then.
C15_Witness ==
    /\ ret.op = "AddItems" /\ p.kind = "publish"
    /\ cfg.batchSize = 2 /\ Len(input) = 3 /\ batchSize = 1
    /\ Len(progress) = 2 /\ progress[2].totalBatches.val = 2

\* C16: the batch in hand is the non-empty prefix of the items not yet
\* submitted, of size min(B, remaining); so with B > 0 the i-th PUT carries
\* the i-th slice of size B of the input, every PUT but the last slice's
\* carries exactly B items, and no PUT carries an empty batch.
C16_BatchIsPrefix ==
    (ret.op = "AddItems" /\ p.kind = "publish") =>
        LET B == cfg.batchSize
            N == Len(input)
            sent == Len(Accepted(calls))
        IN /\ \A i \in 1..Len(calls) :
                 /\ calls[i].body = Chunk(input, B, i)
                 /\ Len(calls[i].body) >= 1
                 /\ Len(calls[i].body) <= B
                 /\ (i * B < N) => Len(calls[i].body) = B
           /\ pc = "AddItems" =>
                 /\ batch # <<>>
                 /\ batch \o items = SubSeq(input, sent * B + 1, N)
                 /\ Len(batch) = Min(B, N - sent * B)

\* C16 witness: four items with batch size three, the second batch of one
\* item in hand.
C16_Witness ==
    /\ pc = "AddItems" /\ cfg.batchSize = 3 /\ Len(input) = 4
    /\ Len(calls) = 1 /\ Len(calls[1].body) = 3 /\ Len(batch) = 1

\* C17: AddItems ends without a runtime fault for every item count and every
\* batch size from zero up: the total of a zero batch size is NaN or +Inf,
\* not a fault; every iteration that goes on leaves fewer remaining items;
\* and, each PUT returning, a running AddItems returns.
C17_AddItemsTerminates ==
    /\ [](ret.op = "AddItems" =>
            /\ ret.err # NilDeref
            /\ (p.kind = "publish" /\ HasLink(p, "self")) =>
                  (totalBatches.kind = "num" <=> cfg.batchSize > 0))
    /\ [][(pc = "AddItems" /\ pc' = "AddItems") =>
             Len(items') < Len(items)]_vars
    /\ (pc = "AddItems") ~> (pc = "idle" /\ ret.op = "AddItems")

\* C17 witness: AddItems of two items returned nil with batch size zero, its
\* total being +Inf.
C17_Witness ==
    /\ Returned("AddItems") /\ ret.err = NoError
    /\ cfg.batchSize = 0 /\ Len(input) = 2 /\ totalBatches.kind = "+Inf"

\* C17 witness: AddItems of four items returned after four iterations.
C17_WitnessLoop ==
    /\ Returned("AddItems") /\ ret.err = NoError
    /\ cfg.batchSize = 1 /\ Len(input) = 4 /\ count = 4

Writes == {"POST", "PUT"}

\* C18: every POST and PUT of an operation carries a headers map of its own
\* whose one entry is X-Idempotency-Key, no two of them the same map, and
\* every GET carries no headers.
C18_IdempotencyKeyPerWrite ==
    /\ \A i \in 1..Len(calls) :
          /\ calls[i].method \in Writes =>
                /\ calls[i].headers.names = {"X-Idempotency-Key"}
                /\ calls[i].headers.alloc >= 1
          /\ calls[i].method = "GET" => calls[i].headers = NoHeaders
    /\ \A i, j \in 1..Len(calls) :
          (i # j /\ calls[i].method \in Writes /\ calls[j].method \in Writes) =>
              calls[i].headers.alloc # calls[j].headers.alloc

\* C18 witness: three PUTs of one AddItems call, each with its own map.
C18_Witness ==
    /\ ret.op = "AddItems" /\ Len(calls) = 3
    /\ calls[3].headers = NewHeaders(3)

\* C18 witness: a Commit whose POST carries the key and whose poll does not.
C18_WitnessCommit ==
    /\ ret.op = "Commit" /\ Len(calls) = 2
    /\ calls[1].headers.names = IdempotencyHeaders
    /\ calls[2].headers.names = {}

\* C19: no ID, AddItems or Commit step, whatever its outcome, changes the
\* id, the environment or the links of the publish it runs on.
C19_PublishImmutable ==
    [][(p.kind = "publish" /\ ret'.op \in {"ID", "AddItems", "Commit"}) =>
          /\ p'.kind = "publish"
          /\ p'.raw.ID = p.raw.ID
          /\ p'.raw.Env = p.raw.Env
          /\ p'.raw.Links = p.raw.Links]_vars

\* C19 witness: a Commit that ran to success on the created publish pb.
C19_Witness ==
    /\ Returned("Commit") /\ ret.err = NoError
    /\ origin = "new" /\ p.raw.ID = "pb" /\ p.raw.Env = "stage"
    /\ DOMAIN p.raw.Links = {"self", "commit"}

\* C20: the publish NewPublish returns with an error has no client and no
\* links, and AddItems and Commit on it return the session-state error
\* without any call.
C20_FailedCreateUnusable ==
    origin = "newFailed" =>
        /\ p.kind = "publish"
        /\ ~p.client
        /\ DOMAIN p.raw.Links = {}
        /\ ret.op = "NewPublish" => ret.err \in TransportErrors
        /\ ret.op = "AddItems" =>
              (pc = "idle" /\ ret.err = ErrMissingSelf /\ calls = <<>>)
        /\ ret.op = "Commit" =>
              (pc = "idle" /\ ret.err = ErrNotEligible /\ calls = <<>>)

\* C20 witness: AddItems of one item refused on the publish of a failed
\* creation.
C20_Witness ==
    /\ origin = "newFailed" /\ Returned("AddItems")
    /\ ret.err = ErrMissingSelf /\ Len(input) = 1

\* C20 witness: Commit refused on the publish of a failed creation.
C20_WitnessCommit ==
    /\ origin = "newFailed" /\ Returned("Commit") /\ ret.err = ErrNotEligible

====
